---- MODULE Spec2Model ----
(***************************************************************************)
(* Model of train.py: the command line (__main__), train() with its epoch  *)
(* loop, the three evaluation functions and save_history.                  *)
(*                                                                         *)
(* Numbers.  Losses are integers.  A quotient the code computes in         *)
(* floating point (running_loss / iteration, 100 * accuracy, a normalised  *)
(* confusion-matrix cell) is kept as the exact fraction [num, den]; the    *)
(* fraction 0/0 is the NaN that the mean of no samples gives.  Learning    *)
(* rates are integers in units of 1e-8, so that lr = 0.001 is 100000,      *)
(* eps = 1e-08 is 1 and a multiplication by factor = 0.1 is \div 10.       *)
(***************************************************************************)
EXTENDS Integers, Sequences, FiniteSets

\* ------------------------------------------------------------ bounds
MaxEpoch == 2
MaxBatches == 3
MaxIteration == 2
MaxSamples == 2
LongEpochs == 8

\* Values criterion(outputs, labels).item() is drawn from.
LossValues == {1, 2}

\* ------------------------------------------------- program constants
\* train(lr=0.001), in units of 1e-8
DefaultLr == 100000
\* 1.0 in learning-rate units: the default lr is 0.001 of it
LrScale == 1000 * DefaultLr
\* ReduceLROnPlateau(patience=5)
Patience == 5
\* ReduceLROnPlateau(factor=0.1): new_lr = old_lr * 0.1
FactorDiv == 10
\* ReduceLROnPlateau(min_lr=0)
MinLr == 0
\* ReduceLROnPlateau(eps=1e-08), in units of 1e-8
Eps == 1
\* ReduceLROnPlateau(cooldown=0)
Cooldown == 0
\* best of a mode="min" scheduler before the first step: +inf
Inf == -1
\* the local `loss` of train() before the first batch binds it
Unbound == -2

VARIABLES
    pc,             \* where the script is
    argv_fl,        \* what follows --fl on the command line; <<>> when omitted
    args_fl,        \* args.fl
    epoch_num,      \* train(epoch_num)
    iteration,      \* train(iteration)
    cls_num,        \* len(classes)
    traLoader,      \* number of batches of traLoader (one sample per batch)
    valLoader,      \* number of samples of valLoader
    tesLoader,      \* number of samples of tesLoader
    batch_loss,     \* batch_loss[e][b]: what criterion returns in epoch e, batch b
    criterion,      \* the class of the loss object
    epoch, i,       \* the two loop indices of train()
    loss,           \* the local `loss` (loss.item())
    running_loss,
    loss_list, tra_acc_list, val_acc_list, lr_list,
    optimizer_lr,   \* optimizer.param_groups[0]["lr"]
    scheduler,      \* the ReduceLROnPlateau object
    weights,        \* model parameters: the number of optimizer.step() calls so far
    y_true, y_pred, \* the two lists eval_model_test collects over tesLoader
    cm,             \* the confusion matrix returned by eval_model_test
    files           \* the artifacts on disk, name -> contents

inputs == <<argv_fl, epoch_num, iteration, cls_num, traLoader, valLoader,
            tesLoader, batch_loss>>
history == <<loss_list, tra_acc_list, val_acc_list, lr_list>>
vars == <<pc, inputs, args_fl, criterion, epoch, i, loss, running_loss, history,
          optimizer_lr, scheduler, weights, y_true, y_pred, cm, files>>

\* ------------------------------------------------------------ helpers
Last(s) == s[Len(s)]

RECURSIVE SumSeq(_)
SumSeq(s) == IF s = <<>> THEN 0 ELSE s[1] + SumSeq(Tail(s))

\* The sum of f over the finite set S of its arguments.
RECURSIVE SumOver(_, _)
SumOver(f, S) ==
    IF S = {} THEN 0
    ELSE LET x == CHOOSE y \in S : TRUE IN f[x] + SumOver(f, S \ {x})

Frac(n, d) == [num |-> n, den |-> d]

Classes == 0 .. (cls_num - 1)

\* ------------------------------------------------------ command line
\* What follows --fl: nothing (the flag is omitted), or one string.
FlArgs == {<<>>, <<"True">>, <<"False">>, <<"">>}

\* Python's bool(str): every string but the empty one is true.
bool(s) == s # ""

\* parser.add_argument("--fl", type=bool, default=True); parse_args()
parse_fl(a) == IF a = <<>> THEN TRUE ELSE bool(a[1])

\* criterion = FocalLoss(num_samples) if args.fl else nn.CrossEntropyLoss()
make_criterion(fl) == IF fl THEN "FocalLoss" ELSE "CrossEntropyLoss"

\* ---------------------------------------------------------- metrics
\* sklearn accuracy_score: the mean of (y_true == y_pred); NaN for no samples.
accuracy_score(yt, yp) ==
    Frac(Cardinality({k \in DOMAIN yt : yt[k] = yp[k]}), Len(yt))

\* acc = 100.0 * accuracy_score(y_true, y_pred)
acc_percent(yt, yp) ==
    LET a == accuracy_score(yt, yp) IN Frac(100 * a.num, a.den)

\* unique_labels(y_true, y_pred)
unique_labels(yt, yp) ==
    {yt[k] : k \in DOMAIN yt} \cup {yp[k] : k \in DOMAIN yp}

\* classification_report(y_true, y_pred, target_names=classes) raises ValueError
\* when the number of labels present differs from len(target_names).
report_raises(yt, yp) ==
    Cardinality(unique_labels(yt, yp)) # cls_num

\* Mutant of confusion_matrix: normalize="true", each count over its row's sum.
confusion_matrix_rows(yt, yp) ==
    LET labels == unique_labels(yt, yp)
        count(t, p) == Cardinality({k \in DOMAIN yt : yt[k] = t /\ yp[k] = p})
        row(t) == Cardinality({k \in DOMAIN yt : yt[k] = t})
    IN  [c \in labels \X labels |-> Frac(count(c[1], c[2]), row(c[1]))]

\* confusion_matrix(y_true, y_pred, normalize="all"): counts divided by cm.sum()
confusion_matrix(yt, yp) ==
    LET labels == unique_labels(yt, yp)
        count(t, p) == Cardinality({k \in DOMAIN yt :
                                       yt[k] = t /\ yp[k] = p})
        counts == [c \in labels \X labels |-> count(c[1], c[2])]
        total == SumOver(counts, labels \X labels)
    IN  [c \in labels \X labels |-> Frac(counts[c], total)]

\* -------------------------------------------------------- scheduler
\* ReduceLROnPlateau.__init__ / _reset
scheduler_init ==
    [best |-> Inf, num_bad_epochs |-> 0, cooldown_counter |-> 0, last_epoch |-> 0]

\* is_better for mode="min", threshold_mode="rel", threshold=lr:
\* a < best * (1 - threshold)
is_better(a, best, threshold) ==
    \/ best = Inf
    \/ a * LrScale < best * (LrScale - threshold)

\* _reduce_lr: new_lr = max(old_lr * factor, min_lr), taken when it differs by > eps
reduce_lr(old_lr) ==
    LET scaled == old_lr \div FactorDiv
        new_lr == IF scaled > MinLr THEN scaled ELSE MinLr
    IN  IF old_lr - new_lr > Eps THEN new_lr ELSE old_lr

\* ReduceLROnPlateau.step(metrics): the scheduler after the step, and whether
\* the learning rate is reduced.
step_state(s, metrics, threshold) ==
    LET better == is_better(metrics, s.best, threshold)
        best1 == IF better THEN metrics ELSE s.best
        bad1 == IF better THEN 0 ELSE s.num_bad_epochs + 1
        cooling == s.cooldown_counter > 0
        cool2 == IF cooling THEN s.cooldown_counter - 1 ELSE s.cooldown_counter
        bad2 == IF cooling THEN 0 ELSE bad1
        reduce == bad2 > Patience
    IN  [sched |-> [best |-> best1,
                    num_bad_epochs |-> IF reduce THEN 0 ELSE bad2,
                    cooldown_counter |-> IF reduce THEN Cooldown ELSE cool2,
                    last_epoch |-> s.last_epoch + 1],
         reduce |-> reduce]

\* ------------------------------------------------------------ inputs
Config(a, e, it, c, nb, nv, nt) ==
    [argv_fl |-> a, epoch_num |-> e, iteration |-> it, cls_num |-> c,
     traLoader |-> nb, valLoader |-> nv, tesLoader |-> nt]

\* The loss bookkeeping of the epoch loop: one class, so every prediction is right.
LoopConfigs ==
    {Config(<<>>, e, it, 1, nb, 1, 1) :
        e \in 0 .. MaxEpoch, it \in 1 .. MaxIteration, nb \in 0 .. MaxBatches}

\* The evaluations: two classes, loaders of every size, one epoch.
EvalConfigs ==
    {Config(<<>>, 1, 1, 2, nb, nv, nt) :
        nb \in 0 .. MaxSamples, nv \in 0 .. MaxSamples, nt \in 0 .. MaxSamples}

\* A run long enough for the scheduler to run out of patience.
LongConfigs == {Config(<<>>, LongEpochs, 1, 1, 1, 1, 1)}

\* Every way of giving --fl.
CliConfigs == {Config(a, 1, 1, 1, 1, 1, 1) : a \in FlArgs}

Configs == LoopConfigs \cup EvalConfigs \cup LongConfigs \cup CliConfigs

Init ==
    /\ pc = "main"
    /\ \E c \in Configs :
          /\ argv_fl = c.argv_fl
          /\ epoch_num = c.epoch_num
          /\ iteration = c.iteration
          /\ cls_num = c.cls_num
          /\ traLoader = c.traLoader
          /\ valLoader = c.valLoader
          /\ tesLoader = c.tesLoader
          /\ batch_loss \in [0 .. (c.epoch_num - 1) ->
                                [0 .. (c.traLoader - 1) -> LossValues]]
    /\ args_fl = FALSE
    /\ criterion = "None"
    /\ epoch = 0
    /\ i = 0
    /\ loss = Unbound
    /\ running_loss = 0
    /\ loss_list = <<>>
    /\ tra_acc_list = <<>>
    /\ val_acc_list = <<>>
    /\ lr_list = <<>>
    /\ optimizer_lr = 0
    /\ scheduler = scheduler_init
    /\ weights = 0
    /\ y_true = <<>>
    /\ y_pred = <<>>
    /\ cm = <<>>
    /\ files = <<>>

\* ----------------------------------------------------------- actions
\* __main__: args = parser.parse_args(); train(...) is entered.
main ==
    /\ pc = "main"
    /\ args_fl' = parse_fl(argv_fl)
    /\ pc' = "setup"
    /\ UNCHANGED <<inputs, criterion, epoch, i, loss, running_loss, history,
                   optimizer_lr, scheduler, weights, y_true, y_pred, cm, files>>

\* train(), up to the epoch loop: the four lists, criterion, optimizer, scheduler.
train_setup ==
    /\ pc = "setup"
    /\ loss_list' = <<>>
    /\ tra_acc_list' = <<>>
    /\ val_acc_list' = <<>>
    /\ lr_list' = <<>>
    /\ criterion' = make_criterion(args_fl)
    /\ optimizer_lr' = DefaultLr
    /\ scheduler' = scheduler_init
    /\ epoch' = 0
    /\ pc' = "epoch"
    /\ UNCHANGED <<inputs, args_fl, i, loss, running_loss, weights, y_true, y_pred,
                   cm, files>>

\* Mutant of epoch_start: logs the argument lr instead of the optimizer's rate.
epoch_start_logs_arg ==
    /\ pc = "epoch"
    /\ epoch < epoch_num
    /\ lr_list' = Append(lr_list, DefaultLr)
    /\ running_loss' = 0
    /\ i' = 0
    /\ pc' = "batch"
    /\ UNCHANGED <<inputs, args_fl, criterion, epoch, loss, loss_list, tra_acc_list,
                   val_acc_list, optimizer_lr, scheduler, weights, y_true, y_pred,
                   cm, files>>

\* for epoch in range(epoch_num): the head of the body, up to the batch loop.
epoch_start ==
    /\ pc = "epoch"
    /\ epoch < epoch_num
    /\ lr_list' = Append(lr_list, optimizer_lr)
    /\ running_loss' = 0
    /\ i' = 0
    /\ pc' = "batch"
    /\ UNCHANGED <<inputs, args_fl, criterion, epoch, loss, loss_list, tra_acc_list,
                   val_acc_list, optimizer_lr, scheduler, weights, y_true, y_pred,
                   cm, files>>

\* Mutant of train_batch: records at i % iteration == 0.
train_batch_records_first ==
    /\ pc = "batch"
    /\ i < traLoader
    /\ weights' = weights + 1
    /\ loss' = batch_loss[epoch][i]
    /\ loss_list' =
          IF i % iteration = 0
          THEN Append(loss_list, Frac(running_loss + loss', iteration))
          ELSE loss_list
    /\ running_loss' = 0
    /\ i' = i + 1
    /\ UNCHANGED <<pc, inputs, args_fl, criterion, epoch, tra_acc_list, val_acc_list,
                   lr_list, optimizer_lr, scheduler, y_true, y_pred, cm, files>>

\* One pass of the body of `for i, data in enumerate(traLoader, 0)`.
train_batch ==
    /\ pc = "batch"
    /\ i < traLoader
    /\ weights' = weights + 1
    /\ loss' = batch_loss[epoch][i]
    /\ loss_list' =
          IF i % iteration = iteration - 1
          THEN Append(loss_list, Frac(running_loss + loss', iteration))
          ELSE loss_list
    /\ running_loss' = 0
    /\ i' = i + 1
    /\ UNCHANGED <<pc, inputs, args_fl, criterion, epoch, tra_acc_list, val_acc_list,
                   lr_list, optimizer_lr, scheduler, y_true, y_pred, cm, files>>

\* eval_model_train(model, traLoader, tra_acc_list), after the last batch.
eval_model_train ==
    /\ pc = "batch"
    /\ i = traLoader
    /\ \E yt \in [1 .. traLoader -> Classes], yp \in [1 .. traLoader -> Classes] :
          tra_acc_list' = Append(tra_acc_list, acc_percent(yt, yp))
    /\ pc' = "eval_valid"
    /\ UNCHANGED <<inputs, args_fl, criterion, epoch, i, loss, running_loss, loss_list,
                   val_acc_list, lr_list, optimizer_lr, scheduler, weights, y_true,
                   y_pred, cm, files>>

\* Mutant of eval_model_valid: appends to the training list.
eval_model_valid_wrong_list ==
    /\ pc = "eval_valid"
    /\ \E yt \in [1 .. valLoader -> Classes], yp \in [1 .. valLoader -> Classes] :
          tra_acc_list' = Append(tra_acc_list, acc_percent(yt, yp))
    /\ pc' = "sched"
    /\ UNCHANGED <<inputs, args_fl, criterion, epoch, i, loss, running_loss, loss_list,
                   val_acc_list, lr_list, optimizer_lr, scheduler, weights, y_true,
                   y_pred, cm, files>>

\* Mutant of eval_model_valid: saves a checkpoint of the weights every epoch.
eval_model_valid_checkpoints ==
    /\ pc = "eval_valid"
    /\ \E yt \in [1 .. valLoader -> Classes], yp \in [1 .. valLoader -> Classes] :
          val_acc_list' = Append(val_acc_list, acc_percent(yt, yp))
    /\ files' = [save_pt |-> weights]
    /\ pc' = "sched"
    /\ UNCHANGED <<inputs, args_fl, criterion, epoch, i, loss, running_loss, loss_list,
                   tra_acc_list, lr_list, optimizer_lr, scheduler, weights, y_true,
                   y_pred, cm>>

\* eval_model_valid(model, valLoader, val_acc_list)
eval_model_valid ==
    /\ pc = "eval_valid"
    /\ \E yt \in [1 .. valLoader -> Classes], yp \in [1 .. valLoader -> Classes] :
          val_acc_list' = Append(val_acc_list, acc_percent(yt, yp))
    /\ pc' = "sched"
    /\ UNCHANGED <<inputs, args_fl, criterion, epoch, i, loss, running_loss, loss_list,
                   tra_acc_list, lr_list, optimizer_lr, scheduler, weights, y_true,
                   y_pred, cm, files>>

\* Mutant of scheduler_step: steps on the epoch's summed loss.
scheduler_step_epoch_loss ==
    /\ pc = "sched"
    /\ \/ /\ loss = Unbound
          /\ pc' = "raised"
          /\ UNCHANGED <<epoch, optimizer_lr, scheduler>>
       \/ /\ loss # Unbound
          /\ LET total == SumSeq([k \in 1 .. traLoader |-> batch_loss[epoch][k - 1]])
                  r == step_state(scheduler, total, DefaultLr)
             IN /\ scheduler' = r.sched
                /\ optimizer_lr' = IF r.reduce THEN reduce_lr(optimizer_lr)
                                   ELSE optimizer_lr
          /\ epoch' = epoch + 1
          /\ pc' = "epoch"
    /\ UNCHANGED <<inputs, args_fl, criterion, i, loss, running_loss, history,
                   weights, y_true, y_pred, cm, files>>

\* scheduler.step(loss.item()), which ends the epoch; UnboundLocalError when no
\* batch has bound `loss`.
scheduler_step ==
    /\ pc = "sched"
    /\ \/ /\ loss = Unbound
          /\ pc' = "raised"
          /\ UNCHANGED <<epoch, optimizer_lr, scheduler>>
       \/ /\ loss # Unbound
          /\ LET r == step_state(scheduler, loss, DefaultLr) IN
                /\ scheduler' = r.sched
                /\ optimizer_lr' = IF r.reduce THEN reduce_lr(optimizer_lr)
                                   ELSE optimizer_lr
          /\ epoch' = epoch + 1
          /\ pc' = "epoch"
    /\ UNCHANGED <<inputs, args_fl, criterion, i, loss, running_loss, history,
                   weights, y_true, y_pred, cm, files>>

\* cls_report, cm = eval_model_test(model, tesLoader, classes), after the last epoch.
eval_model_test ==
    /\ pc = "epoch"
    /\ epoch = epoch_num
    /\ \E yt \in [1 .. tesLoader -> Classes], yp \in [1 .. tesLoader -> Classes] :
          /\ y_true' = yt
          /\ y_pred' = yp
          /\ \/ /\ report_raises(yt, yp)
                /\ pc' = "raised"
                /\ cm' = cm
             \/ /\ ~report_raises(yt, yp)
                /\ cm' = confusion_matrix(yt, yp)
                /\ pc' = "save"
    /\ UNCHANGED <<inputs, args_fl, criterion, epoch, i, loss, running_loss, history,
                   optimizer_lr, scheduler, weights, files>>

\* save_history(...): the run directory and everything written into it.
save_history ==
    /\ pc = "save"
    /\ files' = [acc_csv |-> [k \in 1 .. Len(tra_acc_list) |->
                                <<tra_acc_list[k], val_acc_list[k], lr_list[k]>>],
                 loss_csv |-> loss_list,
                 save_pt |-> weights,
                 mat_csv |-> cm]
    /\ pc' = "done"
    /\ UNCHANGED <<inputs, args_fl, criterion, epoch, i, loss, running_loss, history,
                   optimizer_lr, scheduler, weights, y_true, y_pred, cm>>

\* An exception raised by library code (data, model, optimizer, metrics) in the
\* step the script is at; nothing catches it.
raise_exception ==
    /\ pc \in {"setup", "epoch", "batch", "eval_valid", "sched"}
    /\ pc' = "raised"
    /\ UNCHANGED <<inputs, args_fl, criterion, epoch, i, loss, running_loss, history,
                   optimizer_lr, scheduler, weights, y_true, y_pred, cm, files>>

Next ==
    \/ main
    \/ train_setup
    \/ epoch_start
    \/ train_batch
    \/ eval_model_train
    \/ eval_model_valid
    \/ scheduler_step
    \/ eval_model_test
    \/ save_history
    \/ raise_exception

Spec == Init /\ [][Next]_vars

\* ------------------------------------------------------------ claims
\* Equality of two fractions.
FracEq(a, b) == a.num * b.den = b.num * a.den

\* The sum of batch_loss[e][lo .. hi].
RECURSIVE LossSum(_, _, _)
LossSum(e, lo, hi) == IF lo > hi THEN 0 ELSE batch_loss[e][lo] + LossSum(e, lo + 1, hi)

\* The run has left the epoch loop and the test evaluation behind it.
Completed == pc \in {"save", "done"}

\* C1: inside an epoch, after i batches, running_loss is the sum of the losses of
\* the batches since the last recording (it is 0 only right after one), and a
\* value just recorded is the average of the `iteration` batches before it.
C1_RunningAverage ==
    (pc = "batch") =>
        LET since == iteration * (i \div iteration) IN
        /\ running_loss = LossSum(epoch, since, i - 1)
        /\ (i > 0 /\ i % iteration = 0) =>
              FracEq(Last(loss_list),
                     Frac(LossSum(epoch, i - iteration, i - 1), iteration))

\* C2: the three per-epoch lists grow together, one entry per finished epoch,
\* so that after the loop each has epoch_num entries and acc.csv has epoch_num
\* rows, row k made of the k-th entry of each list.
C2_ListsAligned ==
    /\ (pc = "epoch" \/ Completed) =>
          /\ Len(tra_acc_list) = epoch
          /\ Len(val_acc_list) = epoch
          /\ Len(lr_list) = epoch
    /\ Completed => epoch = epoch_num
    /\ (pc = "done") =>
          /\ Len(files.acc_csv) = epoch_num
          /\ \A k \in 1 .. epoch_num :
                files.acc_csv[k] = <<tra_acc_list[k], val_acc_list[k], lr_list[k]>>

C2_Witness == pc = "done" /\ epoch_num >= 2 /\ Len(files.acc_csv) = epoch_num

\* C3: after a completed run loss.csv has epoch_num * floor(batches / iteration) rows.
C3_LossRows ==
    /\ Completed => Len(loss_list) = epoch_num * (traLoader \div iteration)
    /\ (pc = "done") => Len(files.loss_csv) = epoch_num * (traLoader \div iteration)

C3_Witness ==
    /\ pc = "done"
    /\ epoch_num >= 2
    /\ iteration >= 2
    /\ traLoader % iteration # 0
    /\ Len(files.loss_csv) = epoch_num

\* The boolean a user means by what follows --fl; omitting the flag leaves the
\* default, which enables the focal loss.
expressed_fl(a) == IF a = <<>> THEN TRUE ELSE a[1] = "True"

\* C4: the criterion is the focal loss exactly when the user enabled --fl.
C4_CriterionMatchesFlag ==
    (criterion # "None") => ((criterion = "FocalLoss") <=> expressed_fl(argv_fl))

\* A percentage between 0 and 100.
InRange(a) == a.den > 0 /\ 0 <= a.num /\ a.num <= 100 * a.den

\* C5: every recorded training and validation accuracy lies in [0, 100].
C5_AccuracyInRange ==
    /\ \A k \in DOMAIN tra_acc_list : InRange(tra_acc_list[k])
    /\ \A k \in DOMAIN val_acc_list : InRange(val_acc_list[k])

\* C6: every cell (t, p) of the confusion matrix returned is the number of test
\* samples of true class t predicted as p over the number of test samples, and
\* the cells add up to 1.
C6_ConfusionMatrixNormalized ==
    Completed =>
        /\ tesLoader > 0
        /\ Len(y_true) = tesLoader
        /\ \A c \in DOMAIN cm :
              /\ cm[c].den = tesLoader
              /\ cm[c].num = Cardinality({k \in 1 .. tesLoader :
                                             y_true[k] = c[1] /\ y_pred[k] = c[2]})
        /\ SumOver([c \in DOMAIN cm |-> cm[c].num], DOMAIN cm) = tesLoader

C6_Witness ==
    /\ pc = "save"
    /\ tesLoader >= 2
    /\ \E c, d \in DOMAIN cm : c # d /\ cm[c].num > 0 /\ cm[d].num > 0

\* C8: the scheduler changes only in the step that ends an epoch, after all of
\* the epoch's batches and both evaluations; it has then been stepped once per
\* epoch, and the step is the one for the loss of the epoch's last batch.
C8_SchedulerStep ==
    /\ [](pc \in {"batch", "eval_valid", "sched"} => scheduler.last_epoch = epoch)
    /\ [](pc = "epoch" => scheduler.last_epoch = epoch)
    /\ [][scheduler' # scheduler =>
            /\ pc = "sched"
            /\ i = traLoader
            /\ traLoader >= 1
            /\ Len(tra_acc_list) = epoch + 1
            /\ Len(val_acc_list) = epoch + 1
            /\ loss = batch_loss[epoch][traLoader - 1]
            /\ scheduler' =
                  step_state(scheduler, batch_loss[epoch][traLoader - 1], DefaultLr).sched
            /\ epoch' = epoch + 1]_vars

C8_Witness ==
    /\ pc = "epoch"
    /\ epoch >= 2
    /\ traLoader >= 2
    /\ scheduler.last_epoch = epoch
    /\ batch_loss[epoch - 1][traLoader - 1] < batch_loss[epoch - 2][traLoader - 1]
    /\ batch_loss[epoch - 1][traLoader - 1] < batch_loss[epoch - 1][0]
    /\ scheduler.best = batch_loss[epoch - 1][traLoader - 1]

\* C9: inside epoch e the last entry of lr_list is entry e and is the learning
\* rate of the optimizer; the first entry is the initial rate; the rate changes
\* only in the scheduler step that ends an epoch, which leaves lr_list alone, and
\* the next epoch starts by appending the rate that step left.
C9_LrLogged ==
    /\ [](pc \in {"batch", "eval_valid", "sched"} =>
            /\ Len(lr_list) = epoch + 1
            /\ lr_list[epoch + 1] = optimizer_lr)
    /\ [](lr_list # <<>> => lr_list[1] = DefaultLr)
    /\ [][(pc # "setup" /\ optimizer_lr' # optimizer_lr) =>
            (pc = "sched" /\ pc' = "epoch" /\ lr_list' = lr_list)]_vars
    /\ [][(pc = "epoch" /\ pc' = "batch") =>
            lr_list' = Append(lr_list, optimizer_lr)]_vars

C9_Witness ==
    /\ pc = "batch"
    /\ Len(lr_list) >= 2
    /\ lr_list[Len(lr_list)] < lr_list[Len(lr_list) - 1]
    /\ lr_list[Len(lr_list)] = optimizer_lr

\* C10: nothing is on disk before save_history, which runs after the last epoch
\* and the test evaluation; a run that raised leaves nothing; and the weights do
\* not change from the test evaluation to save.pt.
C10_NothingPersistedEarly ==
    /\ [](files # <<>> => (pc = "done" /\ epoch = epoch_num /\ cm # <<>>))
    /\ [](pc = "raised" => files = <<>>)
    /\ [][(pc' \in {"save", "done"}) => weights' = weights]_vars
    /\ [][(pc' = "done") => files'.save_pt = weights]_vars

C10_Witness == pc = "raised" /\ weights >= 2 /\ epoch >= 1 /\ files = <<>>

====
